---- MODULE Spec2Model ----
(***************************************************************************)
(* Model of package webapp (serve.go): the access-logging, panic-recovering *)
(* wrapper around an http.HandlerFunc.                                      *)
(*                                                                          *)
(* One request task per ServeHTTP invocation, one consumer goroutine per    *)
(* log sink (AddLogger) and one for the error sink (ErrorLogger).  A        *)
(* channel of *LogRecord is a FIFO sequence of request ids: the id stands   *)
(* for the pointer, the record it points to is rec[id].                     *)
(*                                                                          *)
(* The wrapped handler and the underlying http.ResponseWriter are external: *)
(* the handler is any bounded sequence of WriteHeader / Write calls on the  *)
(* recorder that ends in a return or a panic; the writer follows the        *)
(* net/http contract (the first WriteHeader, or the first Write, commits    *)
(* the status line; later WriteHeader calls do not change it; a Write may   *)
(* accept fewer bytes than it was given and report an error).               *)
(***************************************************************************)
EXTENDS Integers, Sequences, FiniteSets, TLC

VARIABLES
  StackIn500,   \* App.StackIn500
  StackInLog,   \* App.StackInLog
  Errors,       \* App.Errors: Nil, or "ch" once ErrorLogger made the channel
  errQ,         \* the messages buffered in the Errors channel
  errLog,       \* what the error consumer has printed, in order
  Loggers,      \* App.Loggers: the channels, in registration order (channel i is i)
  logQ,         \* logQ[i]: the record pointers buffered in Loggers[i]
  printed,      \* printed[i]: the lines the consumer of Loggers[i] has printed
  sent,         \* history: sent[i]: the requests whose record was sent on Loggers[i], in order
  now,          \* the wall clock time.Now() reads
  pc,           \* pc[r]: where request task r is
  app,          \* app[r]: the receiver of ServeHTTP, a copy of the App made at the call
  rec,          \* rec[r]: the LogRecord of request r
  under,        \* under[r]: the http.ResponseWriter the record wraps (the client's view)
  panicking,    \* panicking[r]: the panic value in flight in task r, or Nil
  caught,       \* caught[r]: e of HandlePanic, the value recover() returned
  idx,          \* idx[r]: position of the range loop over app.Loggers
  ops,          \* recorder calls the handlers have made so far
  lastCall,     \* history: status of the last WriteHeader call on the recorder, 0 if none
  explicit,     \* history: the handler of r has called WriteHeader
  wrote,        \* history: sum of len(p) over the handler's Write calls
  panicked,     \* history: the handler of r ended in a panic
  propagated,   \* history: ServeHTTP of r returned to its caller still panicking
  remote,       \* r.RemoteAddr of request r, a sequence of characters
  ret           \* ret[r]: what the last rec.Write of r returned to its caller

\* ---- bounds of the model ------------------------------------------------
NumReq == 2        \* ServeHTTP invocations
MaxSinks == 2      \* AddLogger calls
QueueCap == 1      \* channel capacity; the code's make(chan, 1000), scaled
MaxOps == 2        \* recorder calls the handlers make, all requests together
MaxWrite == 1      \* len(p) of a handler Write
MaxTime == 2       \* readings of the wall clock
StackLen == 3      \* length of the text Stack(2) returns
MaxAddrLen == 4    \* characters in r.RemoteAddr

\* ---- program constants ---------------------------------------------------
StatusOK == 200                    \* http.StatusOK
StatusInternalServerError == 500   \* the status HandlePanic sets
errorPageShortLen == 60       \* len(errorPageShort)
errorPageDetailedLen == 164    \* len(errorPageDetailed) less its two verbs

Nil == "nil"
Requests == 1..NumReq
HandlerStatuses == {200, 404}
PanicValues == {"boom"}
\* the characters of a remote address: ":" and one that stands for the others
Chars == {"h", ":"}
\* every r.RemoteAddr of at most MaxAddrLen characters
AllAddrs == UNION {[1..n -> Chars] : n \in 0..MaxAddrLen}
\* the r.RemoteAddr net/http sets on a request it serves: "host:port"
RemoteAddrs == {<<"h", ":", "h">>}
Early == 0         \* the zero time.Time of a field never assigned

vars == <<StackIn500, StackInLog, Errors, errQ, errLog, Loggers, logQ, printed,
          sent, now, pc, app, rec, under, panicking, caught, idx, ops, lastCall,
          explicit, wrote, panicked, propagated, remote, ret>>

\* ---- the underlying http.ResponseWriter (net/http) -------------------------
\* status = 0: no status line sent yet.  lastWH: the last WriteHeader call received.
NewWriter == [status |-> 0, lastWH |-> 0, body |-> <<>>]

UnderWriteHeader(u, status) ==
  [u EXCEPT !.lastWH = status,
            !.status = IF u.status = 0 THEN status ELSE u.status]

\* a writer that loses what it is given
UnderWriteLost(u, data, n) == u

\* Write of `data` of which the writer accepts n bytes; the first Write
\* without a WriteHeader sends the implicit 200.
UnderWrite(u, data, n) ==
  [u EXCEPT !.status = IF u.status = 0 THEN StatusOK ELSE u.status,
            !.body = IF n > 0 THEN Append(u.body, [data |-> data, n |-> n])
                     ELSE u.body]

\* (n, err) of the writer's Write of len bytes of which it accepts n: io.Writer
\* returns a non-nil error when n < len
UnderWriteReturn(len, n) ==
  [n |-> n, err |-> IF n < len THEN "ErrShortWrite" ELSE Nil]

\* the byte counts a Write of len > 0 bytes may report: all of them, or
\* one less together with an error
Accepted(len) == {len - 1, len}

\* ---- LogRecord -------------------------------------------------------------
NewLogRecord(t) ==
  [Host |-> <<>>, RequestStarted |-> t, RequestCompleted |-> Early,
   Status |-> StatusOK, Bytes |-> 0]

\* strings.Index(s, sep) for a one-character sep: the index (from 0) of its
\* first instance in s, -1 when there is none
Index(s, sep) ==
  IF \E k \in 1..Len(s) : s[k] = sep
  THEN (CHOOSE k \in 1..Len(s) : s[k] = sep /\ \A j \in 1..(k - 1) : s[j] # sep) - 1
  ELSE -1

RECURSIVE LastIndexFrom(_, _, _)
\* the scan of strings.LastIndex, from index i (from 0) down to the start
LastIndexFrom(s, sep, i) ==
  IF i < 0 THEN -1
  ELSE IF s[i + 1] = sep THEN i
  ELSE LastIndexFrom(s, sep, i - 1)

\* strings.LastIndex(s, sep) for a one-character sep: the index (from 0) of
\* its last instance in s, -1 when there is none
LastIndex(s, sep) == LastIndexFrom(s, sep, Len(s) - 1)

\* rec.Host as ServeHTTP sets it from r.RemoteAddr
ParseHost(RemoteAddr) ==
  LET n == LastIndex(RemoteAddr, ":")
  IN  IF n # -1 THEN SubSeq(RemoteAddr, 1, n) ELSE RemoteAddr

\* a recorder that keeps the size of the last write only
RecWriteLast(record, n) == [record EXCEPT !.Bytes = n]

\* a recorder that hides the writer's error from its caller
RecWriteReturnNoError(res) == [res EXCEPT !.err = Nil]

\* return n, err of LogRecord.Write: res is what rec.ResponseWriter.Write gave
RecWriteReturn(res) == res

\* rec.Bytes += uint64(n)
RecWrite(record, n) == [record EXCEPT !.Bytes = record.Bytes + n]

\* a recorder that keeps the first status it is given
RecWriteHeaderFirst(record, status) ==
  IF record.Status = StatusOK THEN [record EXCEPT !.Status = status] ELSE record

\* rec.Status = status
RecWriteHeader(record, status) == [record EXCEPT !.Status = status]

\* a recorder that forwards 200 whatever it is given
ForwardedStatusOK(status) == StatusOK

\* the status rec.WriteHeader passes on to rec.ResponseWriter.WriteHeader
ForwardedStatus(status) == status

\* ---- formatters ------------------------------------------------------------
CombinedFormat(r, record) ==
  [req |-> r, host |-> record.Host, started |-> record.RequestStarted,
   status |-> record.Status, bytes |-> record.Bytes]

PerfFormat(r, record) ==
  [req |-> r, host |-> record.Host, started |-> record.RequestStarted,
   status |-> record.Status, bytes |-> record.Bytes, ms |-> record.RequestCompleted - record.RequestStarted]

\* f(rec) of a sink's formatter: the model keeps what either built-in
\* formatter makes of the record
Format(r, record) ==
  [combined |-> CombinedFormat(r, record), perf |-> PerfFormat(r, record)]

\* lines that come out in no fixed order, as when each is printed by a
\* goroutine of its own
LogPrintFirst(lines, line) == <<line>> \o lines

\* log.Print(line): the line is added to the end of the destination
LogPrint(lines, line) == Append(lines, line)

\* ---- channels --------------------------------------------------------------
\* a channel that never blocks a sender
CanSendAlways(q) == TRUE

\* a send on a buffered channel proceeds only while the buffer has room
CanSend(q) == Len(q) < QueueCap

\* a send that drops the value
SendDropped(q, x) == q

\* a send that puts the value first
SendFirst(q, x) == <<x>> \o q

Send(q, x) == Append(q, x)

\* ---- HandlePanic -----------------------------------------------------------
\* recover() called one frame too deep: it returns nil and stops nothing
RecoverNested(p) == Nil

\* a recover() that finds a panic to handle on every return of ServeHTTP
RecoverSpurious(p) == IF p = Nil THEN "boom" ELSE p

\* recover() in the deferred call: the panic value in flight, nil when none
Recover(p) == p

ValueLen(e) == 4   \* length of fmt's %v of the panic value "boom"

\* a guard that always sends the short page
ErrorPageAlwaysShort(detailed) == "errorPageShort"

ErrorPage(detailed) == IF detailed THEN "errorPageDetailed" ELSE "errorPageShort"

PageLen(page, e) ==
  IF page = "errorPageDetailed" THEN errorPageDetailedLen + ValueLen(e) + StackLen
  ELSE errorPageShortLen

\* a message whose stack trace follows the response flag
ErrorMessageBy500(r, e, withStack) ==
  [req |-> r, panic |-> e, stack |-> app[r].StackIn500]

\* msg of HandlePanic: the stack trace is in it when withStack
ErrorMessage(r, e, withStack) == [req |-> r, panic |-> e, stack |-> withStack]

\* a guard that reports only in log-stack mode
ReportsWithStackOnly(a) == a.Errors # Nil /\ a.StackInLog

\* whether HandlePanic reports the recovered panic on app.Errors
Reports(a) == a.Errors # Nil

\* the App value: what ServeHTTP's value receiver copies
ZeroApp == [StackIn500 |-> FALSE, StackInLog |-> FALSE, Errors |-> Nil, Loggers |-> <<>>]
TheApp ==
  [StackIn500 |-> StackIn500, StackInLog |-> StackInLog, Errors |-> Errors,
   Loggers |-> Loggers]

\* NewApp(h, detailed_stacks): one argument sets both flags
NewApp(detailed_stacks) ==
  [StackIn500 |-> detailed_stacks, StackInLog |-> detailed_stacks, Errors |-> Nil,
   Loggers |-> <<>>]

Quiescent == \A r \in Requests : pc[r] \in {"idle", "returned"}

Init ==
  /\ \E detailed_stacks \in BOOLEAN :
       /\ StackIn500 = NewApp(detailed_stacks).StackIn500
       /\ StackInLog = NewApp(detailed_stacks).StackInLog
       /\ Errors = NewApp(detailed_stacks).Errors
       /\ Loggers = NewApp(detailed_stacks).Loggers
  /\ errQ = <<>>
  /\ errLog = <<>>
  /\ logQ = <<>>
  /\ printed = <<>>
  /\ sent = <<>>
  /\ now = 1
  /\ pc = [r \in Requests |-> "idle"]
  /\ app = [r \in Requests |-> ZeroApp]
  /\ rec = [r \in Requests |-> NewLogRecord(Early)]
  /\ under = [r \in Requests |-> NewWriter]
  /\ panicking = [r \in Requests |-> Nil]
  /\ caught = [r \in Requests |-> Nil]
  /\ idx = [r \in Requests |-> 0]
  /\ ops = 0
  /\ lastCall = [r \in Requests |-> 0]
  /\ explicit = [r \in Requests |-> FALSE]
  /\ wrote = [r \in Requests |-> 0]
  /\ panicked = [r \in Requests |-> FALSE]
  /\ propagated = [r \in Requests |-> FALSE]
  /\ remote = [r \in Requests |-> <<>>]
  /\ ret = [r \in Requests |-> [n |-> 0, err |-> Nil]]

appVars == <<StackIn500, StackInLog>>
sinkVars == <<Errors, errQ, errLog, Loggers, logQ, printed, sent>>
reqVars == <<pc, app, rec, under, panicking, caught, idx, lastCall, explicit,
             wrote, panicked, propagated, remote, ret>>

\* a clock that may be set back between two readings
ReadingsAnyTime == 1..MaxTime

\* what a call of time.Now() may return: the clock does not go back
Readings == {t \in {now, now + 1} : t <= MaxTime}

\* AddLogger: a new channel, appended to app.Loggers, and its consumer.
\* app.Loggers is written without synchronisation, so it is called only
\* while no request task is running.
AddLogger ==
  /\ Quiescent
  /\ Len(Loggers) < MaxSinks
  /\ Loggers' = Append(Loggers, Len(Loggers) + 1)
  /\ logQ' = Append(logQ, <<>>)
  /\ printed' = Append(printed, <<>>)
  /\ sent' = Append(sent, <<>>)
  /\ UNCHANGED <<appVars, Errors, errQ, errLog, now, ops, reqVars>>

\* ErrorLogger: the error channel and its consumer.  Like AddLogger it
\* writes the App without synchronisation; the model has it called once.
ErrorLogger ==
  /\ Quiescent
  /\ Errors = Nil
  /\ Errors' = "ch"
  /\ errQ' = <<>>
  /\ UNCHANGED <<appVars, errLog, Loggers, logQ, printed, sent, now, ops,
                 reqVars>>

\* ServeHTTP, up to the call of the handler: the receiver is copied, the
\* record built and HandlePanic deferred.  Request ids are given out in
\* arrival order.
ServeHTTP(r, t, RemoteAddr) ==
  /\ pc[r] = "idle"
  /\ \A q \in Requests : q < r => pc[q] # "idle"
  /\ now' = t
  /\ remote' = [remote EXCEPT ![r] = RemoteAddr]
  /\ app' = [app EXCEPT ![r] = TheApp]
  /\ rec' = [rec EXCEPT ![r] = [NewLogRecord(t) EXCEPT !.Host = ParseHost(RemoteAddr)]]
  /\ pc' = [pc EXCEPT ![r] = "handling"]
  /\ UNCHANGED <<appVars, sinkVars, ops, ret, under, panicking, caught, idx,
                 lastCall, explicit, wrote, panicked, propagated>>

\* the handler calls rec.WriteHeader(status)
HandlerWriteHeader(r, status) ==
  /\ pc[r] = "handling"
  /\ ops < MaxOps
  /\ ops' = ops + 1
  /\ lastCall' = [lastCall EXCEPT ![r] = status]
  /\ explicit' = [explicit EXCEPT ![r] = TRUE]
  /\ rec' = [rec EXCEPT ![r] = RecWriteHeader(@, status)]
  /\ under' = [under EXCEPT ![r] = UnderWriteHeader(@, ForwardedStatus(status))]
  /\ UNCHANGED <<appVars, remote, ret, sinkVars, now, pc, app, panicking,
                 caught, idx, wrote, panicked, propagated>>

\* the handler calls rec.Write(p) with len(p) = len; the writer accepts n
HandlerWrite(r, len, n) ==
  /\ pc[r] = "handling"
  /\ ops < MaxOps
  /\ ops' = ops + 1
  /\ wrote' = [wrote EXCEPT ![r] = @ + len]
  /\ under' = [under EXCEPT ![r] = UnderWrite(@, "handler", n)]
  /\ rec' = [rec EXCEPT ![r] = RecWrite(@, n)]
  /\ ret' = [ret EXCEPT ![r] = RecWriteReturn(UnderWriteReturn(len, n))]
  /\ UNCHANGED <<appVars, remote, sinkVars, now, pc, app, panicking, caught,
                 idx, lastCall, explicit, panicked, propagated>>

\* the handler returns: rec.RequestCompleted = time.Now(), and the range
\* loop over app.Loggers starts
HandlerReturn(r, t) ==
  /\ pc[r] = "handling"
  /\ now' = t
  /\ rec' = [rec EXCEPT ![r].RequestCompleted = t]
  /\ idx' = [idx EXCEPT ![r] = 1]
  /\ pc' = [pc EXCEPT ![r] = "fanout"]
  /\ UNCHANGED <<appVars, remote, ret, sinkVars, ops, app, under, panicking,
                 caught, lastCall, explicit, wrote, panicked, propagated>>

\* the handler panics with value e: ServeHTTP is left at the call, its
\* deferred call is what runs next
HandlerPanic(r, e) ==
  /\ pc[r] = "handling"
  /\ panicking' = [panicking EXCEPT ![r] = e]
  /\ panicked' = [panicked EXCEPT ![r] = TRUE]
  /\ pc' = [pc EXCEPT ![r] = "unwinding"]
  /\ UNCHANGED <<appVars, remote, ret, sinkVars, now, ops, app, rec, under,
                 caught, idx, lastCall, explicit, wrote, propagated>>

\* a loop that takes the loggers from the last registered to the first
LoggerFromLast(a, k) == a.Loggers[Len(a.Loggers) + 1 - k]

\* logger of the k-th iteration of `for _, logger := range app.Loggers`
Logger(a, k) == a.Loggers[k]

\* logger <- rec, for the sink the range loop is at
Enqueue(r) ==
  /\ pc[r] = "fanout"
  /\ idx[r] <= Len(app[r].Loggers)
  /\ LET ch == Logger(app[r], idx[r])
     IN  /\ CanSend(logQ[ch])
         /\ logQ' = [logQ EXCEPT ![ch] = Send(@, r)]
         /\ sent' = [sent EXCEPT ![ch] = Append(@, r)]
  /\ idx' = [idx EXCEPT ![r] = @ + 1]
  /\ UNCHANGED <<appVars, remote, ret, Errors, errQ, errLog, Loggers, printed,
                 now, ops, pc, app, rec, under, panicking, caught, lastCall,
                 explicit, wrote, panicked, propagated>>

\* The deferred HandlePanic, up to the send on app.Errors: it runs when the
\* range loop is over and when the handler panicked.  n is what the writer
\* accepts of the error page.
HandlePanic(r) ==
  /\ \/ pc[r] = "unwinding"
     \/ pc[r] = "fanout" /\ idx[r] > Len(app[r].Loggers)
  /\ LET e == Recover(panicking[r])
         page == ErrorPage(app[r].StackIn500)
     IN  IF e # Nil
         THEN /\ \E n \in Accepted(PageLen(page, e)) :
                   /\ rec' = [rec EXCEPT ![r] =
                         RecWrite(RecWriteHeader(@, StatusInternalServerError), n)]
                   /\ under' = [under EXCEPT ![r] =
                         UnderWrite(UnderWriteHeader(@,
                            ForwardedStatus(StatusInternalServerError)), page, n)]
                   /\ ret' = [ret EXCEPT ![r] =
                         RecWriteReturn(UnderWriteReturn(PageLen(page, e), n))]
              /\ lastCall' = [lastCall EXCEPT ![r] = StatusInternalServerError]
              /\ panicking' = [panicking EXCEPT ![r] = Nil]
              /\ caught' = [caught EXCEPT ![r] = e]
              /\ pc' = [pc EXCEPT ![r] = IF Reports(app[r]) THEN "errsend"
                                         ELSE "returned"]
              /\ UNCHANGED propagated
         ELSE /\ pc' = [pc EXCEPT ![r] = "returned"]
              /\ propagated' = [propagated EXCEPT ![r] = panicking[r] # Nil]
              /\ UNCHANGED <<lastCall, rec, under, panicking, caught, ret>>
  /\ UNCHANGED <<appVars, remote, sinkVars, now, ops, app, idx, explicit,
                 wrote, panicked>>

\* app.Errors <- &msg, and the return of HandlePanic and ServeHTTP
SendError(r) ==
  /\ pc[r] = "errsend"
  /\ CanSend(errQ)
  /\ errQ' = Send(errQ, ErrorMessage(r, caught[r], app[r].StackInLog))
  /\ pc' = [pc EXCEPT ![r] = "returned"]
  /\ UNCHANGED <<appVars, remote, ret, Errors, errLog, Loggers, logQ, printed,
                 sent, now, ops, app, rec, under, panicking, caught, idx,
                 lastCall, explicit, wrote, panicked, propagated>>

\* a consumer goroutine that never receives
LogConsumerStalled(i) == FALSE /\ UNCHANGED vars

\* one turn of the consumer of Loggers[i]: rec := <-ch; log.Print(f(rec))
LogConsumer(i) ==
  /\ i \in 1..Len(Loggers)
  /\ logQ[i] # <<>>
  /\ LET r == Head(logQ[i])
     IN  printed' = [printed EXCEPT ![i] = LogPrint(@, Format(r, rec[r]))]
  /\ logQ' = [logQ EXCEPT ![i] = Tail(@)]
  /\ UNCHANGED <<appVars, Errors, errQ, errLog, Loggers, sent, now, ops,
                 reqVars>>

\* one turn of the error consumer: msg := <-ch; log.Print(msg)
ErrorConsumer ==
  /\ errQ # <<>>
  /\ errLog' = LogPrint(errLog, Head(errQ))
  /\ errQ' = Tail(errQ)
  /\ UNCHANGED <<appVars, Errors, Loggers, logQ, printed, sent, now, ops,
                 reqVars>>

Next ==
  \/ AddLogger
  \/ ErrorLogger
  \/ \E r \in Requests : \E t \in Readings : \E addr \in RemoteAddrs :
        ServeHTTP(r, t, addr)
  \/ \E r \in Requests : \E status \in HandlerStatuses : HandlerWriteHeader(r, status)
  \/ \E r \in Requests : \E len \in 1..MaxWrite : \E n \in Accepted(len) :
        HandlerWrite(r, len, n)
  \/ \E r \in Requests : \E t \in Readings : HandlerReturn(r, t)
  \/ \E r \in Requests : \E e \in PanicValues : HandlerPanic(r, e)
  \/ \E r \in Requests : Enqueue(r)
  \/ \E r \in Requests : HandlePanic(r)
  \/ \E r \in Requests : SendError(r)
  \/ \E i \in 1..MaxSinks : LogConsumer(i)
  \/ ErrorConsumer

Spec == Init /\ [][Next]_vars

\* The goroutines are scheduled fairly: a consumer with a record to take
\* takes it, and a request task that can go on past its handler does.  The
\* handler itself owes nothing.
\* The steps of Next without the handlers' calls on the recorder, which
\* touch nothing but the request's own record and writer: the runs in which
\* every handler returns or panicks at once.
NextDirect ==
  \/ AddLogger
  \/ ErrorLogger
  \/ \E r \in Requests : \E t \in Readings : \E addr \in RemoteAddrs :
        ServeHTTP(r, t, addr)
  \/ \E r \in Requests : \E t \in Readings : HandlerReturn(r, t)
  \/ \E r \in Requests : \E e \in PanicValues : HandlerPanic(r, e)
  \/ \E r \in Requests : Enqueue(r)
  \/ \E r \in Requests : HandlePanic(r)
  \/ \E r \in Requests : SendError(r)
  \/ \E i \in 1..MaxSinks : LogConsumer(i)
  \/ ErrorConsumer

\* The caller assigns an exported flag of the App it has constructed
\* (app.StackIn500 = b), while no request task is running.
SetStackIn500(b) ==
  /\ Quiescent
  /\ b # StackIn500
  /\ StackIn500' = b
  /\ UNCHANGED <<StackInLog, sinkVars, now, ops, reqVars>>

SetStackInLog(b) ==
  /\ Quiescent
  /\ b # StackInLog
  /\ StackInLog' = b
  /\ UNCHANGED <<StackIn500, sinkVars, now, ops, reqVars>>

NextFlags ==
  \/ NextDirect
  \/ \E b \in BOOLEAN : SetStackIn500(b)
  \/ \E b \in BOOLEAN : SetStackInLog(b)

\* the runs of an App whose flags the caller may set one by one
FlagSpec == Init /\ [][NextFlags]_vars

\* ServeHTTP on requests with any remote address, and no sink registered
NextHost ==
  \/ \E r \in Requests : \E t \in Readings : \E addr \in AllAddrs :
        ServeHTTP(r, t, addr)
  \/ \E r \in Requests : \E t \in Readings : HandlerReturn(r, t)
  \/ \E r \in Requests : \E e \in PanicValues : HandlerPanic(r, e)
  \/ \E r \in Requests : HandlePanic(r)

HostSpec == Init /\ [][NextHost]_vars

FairSpec ==
  /\ Init /\ [][NextDirect]_vars
  /\ \A i \in 1..MaxSinks : WF_vars(LogConsumer(i))
  /\ WF_vars(ErrorConsumer)
  /\ \A r \in Requests : WF_vars(Enqueue(r))
  /\ \A r \in Requests : WF_vars(HandlePanic(r))
  /\ \A r \in Requests : WF_vars(SendError(r))

\* ---- what the claims speak of ------------------------------------------------
\* the request a printed line is about
LineReq(line) == line.combined.req

RECURSIVE Reqs(_)
Reqs(lines) == IF lines = <<>> THEN <<>> ELSE <<LineReq(Head(lines))>> \o Reqs(Tail(lines))

\* the requests whose record sink i has been handed: those its consumer has
\* printed, then those still buffered
Received(i) == Reqs(printed[i]) \o logQ[i]

Occurrences(seq, x) == Cardinality({k \in 1..Len(seq) : seq[k] = x})

\* the error reports about request r: printed, then still buffered
ErrReports(r) ==
  Cardinality({k \in 1..Len(errLog \o errQ) : (errLog \o errQ)[k].req = r})

\* the Panic Guard has run for r and r's handler had panicked
GuardDone(r) == panicked[r] /\ pc[r] \in {"errsend", "returned"}

RECURSIVE BodyBytes(_)
BodyBytes(body) == IF body = <<>> THEN 0 ELSE Head(body).n + BodyBytes(Tail(body))

\* C1: when the handler panicked, ServeHTTP has, by the time it returns,
\* recorded the completion timestamp and pushed the record, with status 500,
\* onto the queue of every registered log sink.
C1_PanicRecordFannedOut ==
  \A r \in Requests :
    (pc[r] = "returned" /\ panicked[r]) =>
      /\ rec[r].Status = StatusInternalServerError
      /\ rec[r].RequestCompleted # Early
      /\ \A k \in 1..Len(app[r].Loggers) :
           Occurrences(Received(app[r].Loggers[k]), r) = 1

\* C2: a request has at most one error report; once ServeHTTP has returned it
\* has exactly one if its handler panicked and the App had an error sink,
\* whatever StackInLog is, and none otherwise; a request whose handler did not
\* panic has none.
C2_OneErrorReportPerPanic ==
  \A r \in Requests :
    /\ ErrReports(r) <= 1
    /\ ~panicked[r] => ErrReports(r) = 0
    /\ pc[r] = "returned" =>
         ErrReports(r) = IF panicked[r] /\ app[r].Errors # Nil THEN 1 ELSE 0

C2_Witness ==
  \E r \in Requests :
    /\ pc[r] = "returned" /\ panicked[r] /\ app[r].Errors # Nil
    /\ ~app[r].StackInLog
    /\ ErrReports(r) = 1
    /\ \E q \in Requests : pc[q] = "returned" /\ ~panicked[q] /\ ErrReports(q) = 0

\* C3: once the Panic Guard has run for a handler panic, the recorded status
\* is 500, whatever the handler had set or written before.
C3_PanicStatus500 ==
  \A r \in Requests : GuardDone(r) => rec[r].Status = StatusInternalServerError

C3_Witness ==
  \E r \in Requests :
    /\ GuardDone(r) /\ explicit[r] /\ under[r].status = 404
    /\ rec[r].Status = StatusInternalServerError

\* C5: a handler panic never leaves ServeHTTP: once the deferred HandlePanic
\* has run no panic is in flight in the task, and no ServeHTTP has returned
\* to its caller panicking.
C5_PanicNeverPropagates ==
  \A r \in Requests :
    /\ ~propagated[r]
    /\ pc[r] \in {"errsend", "returned"} => panicking[r] = Nil

C5_Witness ==
  \E r, q \in Requests :
    /\ r # q
    /\ pc[r] = "returned" /\ panicked[r] /\ ~propagated[r]
    /\ pc[q] = "fanout" /\ rec[q].RequestStarted >= rec[r].RequestStarted

\* the record of r has reached the k-th sink of the App that r was served by
Pushed(r, k) ==
  \/ pc[r] = "fanout" /\ idx[r] > k
  \/ pc[r] = "returned" /\ ~panicked[r]

\* C6: every record whose request reached the fan-out with N sinks registered
\* is eventually printed by the consumer of each of the N sinks; a sink holds
\* a record exactly once from the moment it is pushed (never twice, never
\* before), so none is skipped or duplicated.
C6_FanOut ==
  /\ [](\A r \in Requests : \A k \in 1..Len(app[r].Loggers) :
         Occurrences(Received(app[r].Loggers[k]), r) = IF Pushed(r, k) THEN 1 ELSE 0)
  /\ \A r \in Requests : \A i \in 1..MaxSinks :
        (pc[r] = "fanout" /\ i <= Len(app[r].Loggers))
          ~> (i <= Len(printed) /\ Occurrences(Reqs(printed[i]), r) = 1)

C6_Witness ==
  \E r \in Requests :
    /\ pc[r] = "returned" /\ Len(app[r].Loggers) = 2
    /\ \A i \in 1..2 : Occurrences(Reqs(printed[i]), r) = 1

\* the completion timestamp of the request a printed line is about
CompletedAt(line) == rec[LineReq(line)].RequestCompleted

BlockedOnSink(r) ==
  /\ pc[r] = "fanout"
  /\ idx[r] <= Len(app[r].Loggers)
  /\ Len(logQ[app[r].Loggers[idx[r]]]) = QueueCap

\* C8: no queue ever holds more than its capacity; a request task at a send
\* on a full queue stays at that send for as long as the queue is full, and
\* when a task moves past a send its record is the new last element of that
\* queue (it is not dropped, the send has no other outcome).
C8_Backpressure ==
  /\ [](/\ \A i \in 1..Len(logQ) : Len(logQ[i]) <= QueueCap
        /\ Len(errQ) <= QueueCap)
  /\ [][\A r \in Requests :
          /\ BlockedOnSink(r) => (pc'[r] = "fanout" /\ idx'[r] = idx[r])
          /\ (pc[r] = "fanout" /\ idx'[r] # idx[r]) =>
               LET ch == app[r].Loggers[idx[r]]
               IN  /\ idx'[r] = idx[r] + 1
                   /\ logQ'[ch] = Append(logQ[ch], r)]_vars

C8_Witness ==
  \E r \in Requests : BlockedOnSink(r) /\ Head(logQ[app[r].Loggers[idx[r]]]) # r

\* the handler of r has returned, and it neither panicked nor set a status
PlainCompletion(r) ==
  pc[r] \in {"fanout", "returned"} /\ ~panicked[r] /\ ~explicit[r]

\* C9, as claimed: at completion of such a request the status is 200 and the
\* byte count is the sum of the sizes of the handler's writes.
C9_BytesAreSizesWritten ==
  \A r \in Requests :
    PlainCompletion(r) => rec[r].Status = StatusOK /\ rec[r].Bytes = wrote[r]

\* C9, amended: the status is 200 and the byte count is the sum of the counts
\* the underlying writer reported for the handler's writes, which is what the
\* writer took and never more than the sizes written.
C9_BytesAreCountsReported ==
  \A r \in Requests :
    PlainCompletion(r) =>
      /\ rec[r].Status = StatusOK
      /\ rec[r].Bytes = BodyBytes(under[r].body)
      /\ rec[r].Bytes <= wrote[r]

C9_Witness ==
  \E r \in Requests :
    /\ PlainCompletion(r)
    /\ Len(under[r].body) = 2
    /\ rec[r].Bytes = 2 /\ wrote[r] = 2
    /\ \E q \in Requests : PlainCompletion(q) /\ wrote[q] = 0 /\ rec[q].Bytes = 0

\* C10: from the call of ServeHTTP on, the recorded status is the status of
\* the last WriteHeader call made on the recorder, 200 when there was none,
\* and 500 once a panic has been recovered; the underlying writer was given
\* that same last status.
C10_StatusIsLastWriteHeader ==
  \A r \in Requests :
    pc[r] # "idle" =>
      /\ rec[r].Status = IF lastCall[r] = 0 THEN StatusOK ELSE lastCall[r]
      /\ under[r].lastWH = lastCall[r]
      /\ caught[r] # Nil => rec[r].Status = StatusInternalServerError

C10_Witness ==
  \E r \in Requests :
    /\ pc[r] = "handling"
    /\ under[r].status = StatusOK /\ under[r].lastWH = 404
    /\ rec[r].Status = 404

\* C4, as claimed: after the Panic Guard, whatever the handler did before,
\* the client has status 500 and a body that is the error page of the
\* configuration and nothing else (as much of the page as the writer took).
C4_ClientGets500Page ==
  \A r \in Requests :
    GuardDone(r) =>
      /\ under[r].status = StatusInternalServerError
      /\ Len(under[r].body) = 1
      /\ under[r].body[1].data = ErrorPage(app[r].StackIn500)

\* the chunk the writer took of the guard's error page
PageChunk(r) == under[r].body[Len(under[r].body)]

\* C4, amended: the guard asks for status 500 and writes the page of the
\* configuration (short when StackIn500 is false, detailed when true) once,
\* after whatever the handler sent; the client has status 500 and only the
\* page when the handler had made no WriteHeader or Write call, whole when the
\* writer took all of it; otherwise the status is the one sent first.
C4_PageAfterHandlerOutput ==
  \A r \in Requests :
    GuardDone(r) =>
      LET page == ErrorPage(app[r].StackIn500)
          body == under[r].body
      IN  /\ under[r].lastWH = StatusInternalServerError
          /\ body # <<>>
          /\ PageChunk(r).data = (IF app[r].StackIn500 THEN "errorPageDetailed"
                                  ELSE "errorPageShort")
          /\ PageChunk(r).n \in Accepted(PageLen(page, caught[r]))
          /\ \A k \in 1..(Len(body) - 1) : body[k].data = "handler"
          /\ (~explicit[r] /\ wrote[r] = 0) =>
               /\ under[r].status = StatusInternalServerError
               /\ Len(body) = 1
          /\ (explicit[r] \/ wrote[r] > 0) =>
               under[r].status \in HandlerStatuses \cup {StatusOK}

C4_Witness ==
  \E r \in Requests :
    /\ GuardDone(r) /\ ~explicit[r] /\ wrote[r] = 0 /\ app[r].StackIn500
    /\ under[r].status = StatusInternalServerError
    /\ under[r].body = <<[data |-> "errorPageDetailed",
                          n |-> PageLen("errorPageDetailed", caught[r])]>>

\* the error reports about request r, printed or still buffered
ReportsAbout(r) ==
  {(errLog \o errQ)[k] : k \in {j \in 1..Len(errLog \o errQ) : (errLog \o errQ)[j].req = r}}

\* C11, as claimed: the two flags are independent at construction, so every
\* pair of values the flags of an App can have is the pair of an App that
\* construction (a call of NewApp) gives.
C11_EveryPairConstructible ==
  \E detailed_stacks \in BOOLEAN :
    /\ NewApp(detailed_stacks).StackIn500 = StackIn500
    /\ NewApp(detailed_stacks).StackInLog = StackInLog

\* C11, amended: a constructed App has the two flags equal (NewApp sets both
\* from one argument; they differ only once the caller assigns a field);
\* whatever the two flags are, the error page is the detailed one exactly when
\* StackIn500 is set and an error report has the stack trace exactly when
\* StackInLog is set.
C11_FlagsActIndependently ==
  /\ StackIn500 = StackInLog
  /\ [](\A r \in Requests :
          GuardDone(r) =>
            /\ PageChunk(r).data = (IF app[r].StackIn500 THEN "errorPageDetailed"
                                    ELSE "errorPageShort")
            /\ \A m \in ReportsAbout(r) : m.stack = app[r].StackInLog)

C11_Witness ==
  \E r \in Requests :
    /\ GuardDone(r)
    /\ app[r].StackIn500 /\ ~app[r].StackInLog
    /\ PageChunk(r).data = "errorPageDetailed"
    /\ \E m \in ReportsAbout(r) : ~m.stack

\* the positions of the colons in an address
Colons(addr) == {k \in 1..Len(addr) : addr[k] = ":"}

\* C12: the record's Host is the part of the remote address before its last
\* colon when the address has a colon (what follows that colon has none), and
\* the whole address when it has none.
C12_HostBeforeLastColon ==
  \A r \in Requests :
    pc[r] # "idle" =>
      IF Colons(remote[r]) = {}
      THEN rec[r].Host = remote[r]
      ELSE \E port \in AllAddrs :
             /\ Colons(port) = {}
             /\ remote[r] = rec[r].Host \o <<":">> \o port

C12_Witness ==
  \E r \in Requests :
    /\ pc[r] = "returned"
    /\ Cardinality(Colons(remote[r])) = 2
    /\ Colons(rec[r].Host) # {}
    /\ Len(remote[r]) > Len(rec[r].Host) + 1

\* the record of r has been sent on the channel of some sink
HandedToSinks(r) == \E i \in 1..Len(sent) : Occurrences(sent[i], r) > 0

\* C13: from the first push of a record onto a sink's queue on, no step of the
\* program changes a field of it (not the rest of the fan-out, not the
\* deferred HandlePanic), so every line a consumer has printed is the
\* formatting of the record as it is now.
C13_ReadOnlyAfterPush ==
  /\ [](\A i \in 1..Len(printed) : \A k \in 1..Len(printed[i]) :
          printed[i][k] = Format(LineReq(printed[i][k]), rec[LineReq(printed[i][k])]))
  /\ [][\A r \in Requests : HandedToSinks(r) => rec'[r] = rec[r]]_vars

C13_Witness ==
  \E r \in Requests :
    /\ pc[r] = "returned"
    /\ Len(app[r].Loggers) = MaxSinks
    /\ \A i \in 1..MaxSinks : Occurrences(Reqs(printed[i]), r) = 1
    /\ rec[r].Bytes > 0
    /\ rec[r].Status # StatusOK

\* the size of the Write that a step makes through the recorder of r, 0 when
\* the step makes none: a Write of the handler, or the guard's Write of the page
Asked(r) ==
  IF wrote'[r] # wrote[r] THEN wrote'[r] - wrote[r]
  ELSE IF caught'[r] # caught[r]
  THEN PageLen(ErrorPage(app[r].StackIn500), caught'[r])
  ELSE 0

\* C14: the byte counter of a record is at every moment the sum of the counts
\* the underlying writer reported for the writes made through the recorder,
\* the handler's and the guard's page alike, and what the writer received is
\* what was written; the counter is 0 when the handler is called and never
\* decreases; each Write returns the count the writer reported, by which the
\* counter grows, and the writer's error (present exactly on a short write).
C14_BytesAreCumulativeCounts ==
  /\ [](\A r \in Requests :
          /\ rec[r].Bytes = BodyBytes(under[r].body)
          /\ \A k \in 1..Len(under[r].body) :
               under[r].body[k].data =
                 IF GuardDone(r) /\ k = Len(under[r].body)
                 THEN ErrorPage(app[r].StackIn500) ELSE "handler")
  /\ [][\A r \in Requests :
          /\ pc[r] = "idle" => rec'[r].Bytes = 0
          /\ rec'[r].Bytes >= rec[r].Bytes
          /\ Asked(r) = 0 => rec'[r].Bytes = rec[r].Bytes /\ ret'[r] = ret[r]
          /\ Asked(r) > 0 =>
               /\ ret'[r].n = rec'[r].Bytes - rec[r].Bytes
               /\ ret'[r].n \in Accepted(Asked(r))
               /\ (ret'[r].err = Nil) <=> (ret'[r].n = Asked(r))]_vars

C14_Witness ==
  \E r \in Requests :
    /\ GuardDone(r)
    /\ Len(under[r].body) = 2
    /\ under[r].body[1].data = "handler"
    /\ ret[r].err # Nil
    /\ rec[r].Bytes = 1 + (PageLen(ErrorPage(app[r].StackIn500), caught[r]) - 1)

\* the handler of r has returned and line 116 has set the completion time
Complete(r) ==
  /\ pc[r] \in {"fanout", "returned"}
  /\ ~panicked[r]
  /\ rec[r].RequestCompleted # Early
  /\ rec[r].RequestCompleted >= rec[r].RequestStarted

\* C15: a record is sent to a sink only by a request whose handler has
\* returned and whose completion time was set before that step, so every
\* record in a queue or dequeued by a consumer is complete, with a completion
\* time not before its start time (PerfFormat prints a duration >= 0); the
\* record of a request in ServeHTTP before or in the handler is in no queue.
C15_DequeuedRecordsComplete ==
  /\ [](/\ \A i \in 1..Len(sent) : \A k \in 1..Len(sent[i]) : Complete(sent[i][k])
        /\ \A i \in 1..Len(printed) : \A k \in 1..Len(printed[i]) :
             /\ Complete(LineReq(printed[i][k]))
             /\ printed[i][k].perf.ms >= 0
             /\ printed[i][k].perf.ms =
                  CompletedAt(printed[i][k]) - printed[i][k].perf.started
        /\ \A r \in Requests :
             pc[r] \in {"idle", "handling", "unwinding"} => ~HandedToSinks(r))
  /\ [][\A i \in 1..Len(sent) :
          sent'[i] # sent[i] =>
            /\ Complete(sent'[i][Len(sent'[i])])
            /\ rec'[sent'[i][Len(sent'[i])]] = rec[sent'[i][Len(sent'[i])]]]_vars

C15_Witness ==
  \E i \in 1..Len(printed) : \E k \in 1..Len(printed[i]) :
    /\ printed[i][k].perf.ms > 0
    /\ pc[LineReq(printed[i][k])] = "fanout"
    /\ \E q \in Requests : pc[q] = "handling"

\* HandlePanic has made its WriteHeader(500) and its Write of the error page
\* on the recorder of r, and the underlying writer has received both
ResponseWritten(r) ==
  /\ rec[r].Status = StatusInternalServerError
  /\ under[r].lastWH = StatusInternalServerError
  /\ under[r].status # 0
  /\ Len(under[r].body) > 0
  /\ PageChunk(r).data = ErrorPage(app[r].StackIn500)

\* C16: in HandlePanic the response comes before the report: a task at the
\* send on app.Errors, and every request an error report is about, has had
\* WriteHeader(500) and the error page passed to the client's writer; a task
\* at that send stays there as long as the error queue is full, and ServeHTTP
\* returns from there only by putting its report in a queue that had space.
C16_ResponseBeforeReport ==
  /\ [](\A r \in Requests :
          (pc[r] = "errsend" \/ ReportsAbout(r) # {}) => ResponseWritten(r))
  /\ [][\A r \in Requests :
          pc[r] = "errsend" =>
            /\ Len(errQ) = QueueCap => pc'[r] = "errsend"
            /\ pc'[r] # "errsend" =>
                 /\ pc'[r] = "returned"
                 /\ Len(errQ) < QueueCap
                 /\ errQ' = Append(errQ, errQ'[Len(errQ')])
                 /\ errQ'[Len(errQ')].req = r
                 /\ rec'[r] = rec[r] /\ under'[r] = under[r]]_vars

C16_Witness ==
  \E r \in Requests :
    /\ pc[r] = "errsend"
    /\ Len(errQ) = QueueCap
    /\ Head(errQ).req # r
    /\ ResponseWritten(r)
    /\ ReportsAbout(r) = {}

\* C17: the sinks that have received the record of a request are at every
\* moment the first ones of the registered sinks, in registration order: a
\* sink has it only if every sink registered before has it, and a task
\* blocked at the send on a full sink has given it to no sink registered
\* after that one, whatever room those have.
C17_SinksReceivedArePrefix ==
  \A r \in Requests :
    /\ \A j, k \in 1..Len(app[r].Loggers) :
         (j < k /\ Occurrences(Received(app[r].Loggers[k]), r) > 0) =>
           Occurrences(Received(app[r].Loggers[j]), r) > 0
    /\ \A i \in 1..Len(Loggers) :
         Occurrences(Received(i), r) > 0 =>
           \E k \in 1..Len(app[r].Loggers) : app[r].Loggers[k] = i
    /\ BlockedOnSink(r) =>
         \A k \in 1..Len(app[r].Loggers) :
           k >= idx[r] => Occurrences(Received(app[r].Loggers[k]), r) = 0

C17_Witness ==
  \E r \in Requests :
    /\ BlockedOnSink(r)
    /\ idx[r] = 1
    /\ Len(app[r].Loggers) = MaxSinks
    /\ logQ[app[r].Loggers[MaxSinks]] = <<>>
    /\ \E q \in Requests : Occurrences(Received(app[r].Loggers[MaxSinks]), q) > 0

\* C18: with every consumer (of the log sinks and of the error sink) and every
\* request task scheduled fairly, every call of ServeHTTP whose handler has
\* returned or panicked returns to its caller: no task stays blocked at a send
\* for ever, and the tasks do not block each other on the queues.
C18_ServeHTTPReturns ==
  \A r \in Requests :
    (pc[r] \in {"fanout", "unwinding", "errsend"}) ~> (pc[r] = "returned")

C18_Witness ==
  /\ \A r \in Requests : pc[r] = "returned"
  /\ \E r \in Requests : panicked[r] /\ ReportsAbout(r) # {}
  /\ \E r \in Requests :
       /\ ~panicked[r]
       /\ Len(app[r].Loggers) = MaxSinks
       /\ \A i \in 1..MaxSinks : Occurrences(sent[i], r) = 1
  /\ Len(sent[1]) = NumReq - 1
====
